---- MODULE Spec2Model ----
(***************************************************************************)
(* A model of the usb package: the Context registry and its disposal       *)
(* signal, the Device handle, the bulk transfer engine with its            *)
(* cancellable wrappers, and the configuration bookkeeping of a Device.    *)
(***************************************************************************)
EXTENDS Integers, Sequences, FiniteSets, TLC

\* ------------------------------------------------------------------ bounds
\* Device objects List() can hand out at one time.
NumDevs == 2
\* Goroutines calling Context.Close concurrently.
NumClosers == 2
\* close(c.done) executions that are counted (a second one panics in Go).
MaxFires == 2

Devs == 1..NumDevs
Closers == 1..NumClosers

\* ------------------------------------------------------------------ state
VARIABLES
    devices,    \* Context.devices: the set of registered *Device
    done,       \* Context.done is closed
    closeOnce,  \* Context.closeOnce has run
    fires,      \* how many times close(c.done) executed
    cpc,        \* each Context.Close caller's position
    cres,       \* each Context.Close caller's return value
    epc,        \* the Context.Err caller's position
    lastErr,    \* what Context.Err returned
    alloc,      \* Device objects that exist
    f,          \* Device.f: "nil", "open", or "closed" (non-nil, file closed)
    dctx,       \* Device.ctx is set
    opc,        \* the Context.OpenDevices caller's position
    olist,      \* OpenDevices: the devices of list still to visit
    oret,       \* OpenDevices: ret
    xop,        \* each transfer call: the function called
    xep,        \* each transfer call: the Endpoint it is called on
    xdev,       \* each transfer call: the Device e.i.d of that endpoint
    xpc,        \* each transfer call: the caller's position
    xret,       \* each transfer call: the (int, error) returned
    tpc,        \* each transfer call: the spawned goroutine's position
    tres,       \* each transfer call: the goroutine's transferResult
    kcalls,     \* each transfer call: gusb.Ioctl(USBDEVFS_BULK) calls issued
    kout,       \* each transfer call: what that Ioctl returned
    kretSig,    \* each transfer call: the signal's state when Ioctl returned
    Configs,    \* Device.Configs
    ActiveConfig, \* Device.ActiveConfig: an index into Configs, 0 for nil
    panicked,   \* an index expression was out of range: the goroutine panicked
    scall,      \* the last SetConfiguration call: its argument and outcome
    dlast,      \* the last Device.Close call, its device and return value,
                \* until that device is opened again or collected
    bdd,        \* the gusb.DeviceDescriptor given to toDevice
    bq,         \* what the data backing answers to toDevice's queries
    built,      \* what toDevice returned for bdd and bq
    Parent,     \* Device.Parent of each device of a topology, 0 for nil
    Port,       \* Device.Port of each device of a topology
    gpc,        \* getPorts: the caller's position
    gdev,       \* getPorts: dev, 0 for nil
    gports,     \* getPorts: ports
    claimed,    \* each interface: the kernel has it claimed for this handle
    driver,     \* each interface: the kernel driver bound to it, or "none"
    kmatch,     \* each interface: the kernel has a driver that matches it
    iif,        \* the interface the operation is called on, 0 for none
    iop,        \* the interface operation in progress or last returned
    ipc,        \* that operation's position
    ireqs,      \* the requests it has issued to the kernel, in order
    ians,       \* what the kernel answered to each of them
    iret,       \* what it returned
    trip,       \* a Claim of a free interface and the Release after it
    lk,         \* the last call of Device.Interface, ClaimInterface,
                \* ReleaseInterface or GetDriver: its index and what
                \* Device.Interface returned to it
    ieps,       \* Interface.Endpoints of the interface endpoints are got from
    gout,       \* what GetOutEndpoint returned
    gin,        \* what GetInEndpoint returned
    dipc,       \* DefaultInterface and its cleanup function: the position
    relh        \* d.f when the cleanup function called intf.Release()

ctxVars == <<devices, done, closeOnce, fires, cpc, cres, epc, lastErr>>
devVars == <<alloc, f, dctx, dlast>>
openVars == <<opc, olist, oret>>
xferVars == <<xop, xep, xdev, xpc, xret, tpc, tres, kcalls, kout, kretSig>>
cfgVars == <<Configs, ActiveConfig, panicked, scall>>
bldVars == <<bdd, bq, built>>
portVars == <<Parent, Port, gpc, gdev, gports>>
ifVars == <<claimed, driver, kmatch, iif, iop, ipc, ireqs, ians, iret, trip>>
lkVars == <<lk>>
epVars == <<ieps, gout, gin>>
diVars == <<dipc, relh>>

\* ------------------------------------------------------------ Context code
NoErr == "nil"
Canceled == "context.Canceled"

\* An error value of Context.Close: nil, or the count-reporting error
\* fmt.Errorf("Context.Close called while %d Devices are still open ...", l)
NilErr == [err |-> NoErr, n |-> 0]
NoResult == [err |-> "none", n |-> 0]
ErrStillOpen(l) == [err |-> "DevicesStillOpen", n |-> l]

checkOpenDevs_offByOne(devs) ==
    IF Cardinality(devs) > 1 THEN ErrStillOpen(Cardinality(devs)) ELSE NilErr

checkOpenDevs(devs) ==
    IF Cardinality(devs) > 0 THEN ErrStillOpen(Cardinality(devs)) ELSE NilErr

\* Context.closeDev: delete(c.devices, d) under c.mu.
closeDev_all(devs, d) == {}
closeDev(devs, d) == devs \ {d}

\* sync.Once.Do: whether the function runs on this call.
onceDo_always(once) == TRUE

onceDo(once) == ~once

\* Context.Err: the select on c.done with a default case.
Err(dn) == IF dn THEN Canceled ELSE NoErr

\* A goroutine enters Context.Close.
CloseCall(k) ==
    /\ cpc[k] = "idle"
    /\ cpc' = [cpc EXCEPT ![k] = "check"]
    /\ UNCHANGED <<devices, done, closeOnce, fires, cres, epc, lastErr>>
    /\ UNCHANGED <<devVars, openVars, xferVars, cfgVars, bldVars, portVars, ifVars,
                   lkVars, epVars, diVars>>

\* c.checkOpenDevs() under c.mu; a non-nil error is returned at once.
CloseCheck(k) ==
    /\ cpc[k] = "check"
    /\ LET err == checkOpenDevs(devices) IN
        IF err # NilErr
        THEN /\ cpc' = [cpc EXCEPT ![k] = "ret"]
             /\ cres' = [cres EXCEPT ![k] = err]
        ELSE /\ cpc' = [cpc EXCEPT ![k] = "once"]
             /\ cres' = cres
    /\ UNCHANGED <<devices, done, closeOnce, fires, epc, lastErr>>
    /\ UNCHANGED <<devVars, openVars, xferVars, cfgVars, bldVars, portVars, ifVars,
                   lkVars, epVars, diVars>>

\* c.closeOnce.Do(func() { close(c.done) }); return nil
CloseOnce(k) ==
    /\ cpc[k] = "once"
    /\ IF onceDo(closeOnce)
       THEN /\ done' = TRUE
            /\ fires' = IF fires < MaxFires THEN fires + 1 ELSE fires
       ELSE UNCHANGED <<done, fires>>
    /\ closeOnce' = TRUE
    /\ cpc' = [cpc EXCEPT ![k] = "ret"]
    /\ cres' = [cres EXCEPT ![k] = NilErr]
    /\ UNCHANGED <<devices, epc, lastErr>>
    /\ UNCHANGED <<devVars, openVars, xferVars, cfgVars, bldVars, portVars, ifVars,
                   lkVars, epVars, diVars>>

\* The caller has its result and may call again.
CloseReturn(k) ==
    /\ cpc[k] = "ret"
    /\ cpc' = [cpc EXCEPT ![k] = "idle"]
    /\ cres' = [cres EXCEPT ![k] = NoResult]
    /\ UNCHANGED <<devices, done, closeOnce, fires, epc, lastErr>>
    /\ UNCHANGED <<devVars, openVars, xferVars, cfgVars, bldVars, portVars, ifVars,
                   lkVars, epVars, diVars>>

ErrCall ==
    /\ epc = "idle"
    /\ epc' = "ret"
    /\ lastErr' = Err(done)
    /\ UNCHANGED <<devices, done, closeOnce, fires, cpc, cres>>
    /\ UNCHANGED <<devVars, openVars, xferVars, cfgVars, bldVars, portVars, ifVars,
                   lkVars, epVars, diVars>>

ErrReturn ==
    /\ epc = "ret"
    /\ epc' = "idle"
    /\ lastErr' = "none"
    /\ UNCHANGED <<devices, done, closeOnce, fires, cpc, cres>>
    /\ UNCHANGED <<devVars, openVars, xferVars, cfgVars, bldVars, portVars, ifVars,
                   lkVars, epVars, diVars>>

\* ------------------------------------------------------------- Device code
\* What os.File.Close / os.OpenFile report.
OsResults == {NoErr, "EIO"}

\* Device.Open: a non-nil d.f is closed (and stays in d.f); d.f is replaced
\* only when os.OpenFile succeeds.
DeviceOpenF(h, openErr) ==
    IF openErr = NoErr THEN "open"
    ELSE IF h = "nil" THEN "nil" ELSE "closed"

\* Device.Close: d.f after the call.
DeviceCloseF(h) == "nil"

\* Device.Close: the error returned. nil without a handle; else what
\* d.f.Close() reports, which for a file closed already is os.ErrClosed.
DeviceCloseErr(h, osErr) ==
    IF h = "nil" THEN NoErr
    ELSE IF h = "closed" THEN "ErrClosed"
    ELSE osErr

NoClose == [dev |-> 0, err |-> "none"]

DeviceOpen(d) ==
    /\ d \in alloc
    /\ \E openErr \in OsResults :
        f' = [f EXCEPT ![d] = DeviceOpenF(f[d], openErr)]
    /\ dlast' = IF dlast.dev = d THEN NoClose ELSE dlast
    /\ UNCHANGED <<alloc, dctx>>
    /\ UNCHANGED <<ctxVars, openVars, xferVars, cfgVars, bldVars, portVars, ifVars,
                   lkVars, epVars, diVars>>

\* Device.Close: both branches deregister from the Context when d.ctx is set.
DeviceClose(d) ==
    /\ d \in alloc
    /\ devices' = IF dctx[d] THEN closeDev(devices, d) ELSE devices
    /\ dctx' = [dctx EXCEPT ![d] = FALSE]
    /\ f' = [f EXCEPT ![d] = DeviceCloseF(f[d])]
    /\ \E osErr \in OsResults :
        dlast' = [dev |-> d, err |-> DeviceCloseErr(f[d], osErr)]
    /\ UNCHANGED alloc
    /\ UNCHANGED <<done, closeOnce, fires, cpc, cres, epc, lastErr>>
    /\ UNCHANGED <<openVars, xferVars, cfgVars, bldVars, portVars, ifVars,
                   lkVars, epVars, diVars>>

\* -------------------------------------------------------------- OpenDevices
RECURSIVE SetToSeq(_)
SetToSeq(S) ==
    IF S = {} THEN <<>>
    ELSE LET x == CHOOSE y \in S : \A z \in S : y <= z
         IN <<x>> \o SetToSeq(S \ {x})

SeqToSet(s) == {s[i] : i \in 1..Len(s)}

\* list, err := List(): every call builds its Device objects anew (toDevice),
\* with no handle and no Context.
ODCall ==
    /\ opc = "idle"
    /\ \E S \in SUBSET (Devs \ alloc) :
        /\ alloc' = alloc \cup S
        /\ olist' = SetToSeq(S)
    /\ oret' = <<>>
    /\ opc' = "loop"
    /\ UNCHANGED <<f, dctx, dlast>>
    /\ UNCHANGED <<ctxVars, xferVars, cfgVars, bldVars, portVars, ifVars,
                   lkVars, epVars, diVars>>

\* One iteration of the loop over list: opener(dev), then dev.ctx = c,
\* ret = append(ret, dev) and c.devices[dev] = true under c.mu.
ODStep ==
    /\ opc = "loop"
    /\ olist # <<>>
    /\ LET dev == Head(olist) IN
        \E opener \in BOOLEAN :
            IF opener
            THEN /\ dctx' = [dctx EXCEPT ![dev] = TRUE]
                 /\ oret' = Append(oret, dev)
                 /\ devices' = devices \cup {dev}
            ELSE UNCHANGED <<dctx, oret, devices>>
    /\ olist' = Tail(olist)
    /\ UNCHANGED <<opc, alloc, f, dlast>>
    /\ UNCHANGED <<done, closeOnce, fires, cpc, cres, epc, lastErr>>
    /\ UNCHANGED <<xferVars, cfgVars, bldVars, portVars, ifVars,
                   lkVars, epVars, diVars>>

ODReturn ==
    /\ opc = "loop"
    /\ olist = <<>>
    /\ opc' = "idle"
    /\ oret' = <<>>
    /\ UNCHANGED olist
    /\ UNCHANGED <<devVars, ctxVars, xferVars, cfgVars, bldVars, portVars, ifVars,
                   lkVars, epVars, diVars>>

\* A Device object nothing refers to any more is collected.
DeviceDrop(d) ==
    /\ d \in alloc
    /\ d \notin devices
    /\ d \notin SeqToSet(olist)
    /\ f[d] # "open"
    /\ alloc' = alloc \ {d}
    /\ f' = [f EXCEPT ![d] = "nil"]
    /\ dctx' = [dctx EXCEPT ![d] = FALSE]
    /\ oret' = SelectSeq(oret, LAMBDA x : x # d)
    /\ dlast' = IF dlast.dev = d THEN NoClose ELSE dlast
    /\ UNCHANGED <<opc, olist>>
    /\ UNCHANGED <<ctxVars, xferVars, cfgVars, bldVars, portVars, ifVars,
                   lkVars, epVars, diVars>>

\* ---------------------------------------------------------- transfer code
\* Transfer calls that can be in progress at once.
MaxXfers == 1
\* The largest byte count the kernel reports for one transfer.
MaxBytes == 1

Xfers == 1..MaxXfers

TransferTypeBulk == 2
\* 0x80, the direction bit of an endpoint address.
DirBit == 128

\* Endpoint addresses (a uint8 narrowed to int) and transfer-type codes drawn
\* for the endpoints transfers are called on.
EpAddrs == {127, 128}
TransferTypes == 1..3
Endpoints == [Address : EpAddrs, TransferType : TransferTypes]
NoEp == [Address |-> 0, TransferType |-> 0]

\* An error value: its message and the error it wraps (%w).
E(kind, wraps) == [kind |-> kind, wraps |-> wraps]
NilE == E(NoErr, NoErr)
R(n, err) == [n |-> n, err |-> err]
NoRet == R(0, E("none", NoErr))

\* What gusb.Ioctl(f, USBDEVFS_BULK, &bt) can return: a byte count with no
\* error, a byte count with an error, or -1 with an error.
KOutcomes ==
    {[n |-> n, err |-> e] : n \in 0..MaxBytes, e \in {NoErr, "EIO"}}
        \cup {[n |-> -1, err |-> "EIO"]}
NoKOut == [n |-> 0, err |-> "none"]

\* (Address & 0x80) != 0
IsIn_above128(addr) == addr > DirBit

IsIn(addr) == (addr \div DirBit) % 2 = 1

\* The preconditions of BulkOut, in the order the code tests them; h is
\* e.i.d.f.
BulkOutPre_noTypeCheck(h, ep) ==
    IF h = "nil" THEN E("device not open for BulkOut", NoErr)
    ELSE IF IsIn(ep.Address) THEN E("not an OUT endpoint", NoErr)
    ELSE NilE

BulkOutPre(h, ep) ==
    IF h = "nil" THEN E("device not open for BulkOut", NoErr)
    ELSE IF IsIn(ep.Address) THEN E("not an OUT endpoint", NoErr)
    ELSE IF ep.TransferType # TransferTypeBulk
        THEN E("not a bulk endpoint", NoErr)
    ELSE NilE

BulkInPre(h, ep) ==
    IF h = "nil" THEN E("device not open for BulkIn", NoErr)
    ELSE IF ~IsIn(ep.Address) THEN E("not an IN endpoint", NoErr)
    ELSE IF ep.TransferType # TransferTypeBulk
        THEN E("not a bulk endpoint", NoErr)
    ELSE NilE

WriteContextPre(h, ep) ==
    IF h = "nil" THEN E("device not open for WriteContext", NoErr)
    ELSE IF IsIn(ep.Address) THEN E("not an OUT endpoint", NoErr)
    ELSE IF ep.TransferType # TransferTypeBulk
        THEN E("not a bulk endpoint", NoErr)
    ELSE NilE

ReadContextPre(h, ep) ==
    IF h = "nil" THEN E("device not open for ReadContext", NoErr)
    ELSE IF ~IsIn(ep.Address) THEN E("not an IN endpoint", NoErr)
    ELSE IF ep.TransferType # TransferTypeBulk
        THEN E("not a bulk endpoint", NoErr)
    ELSE NilE

\* The synchronous primitive a function is or wraps.
SyncOf(op) == IF op \in {"BulkOut", "WriteContext"} THEN "BulkOut" ELSE "BulkIn"

SyncPre(op, h, ep) ==
    IF SyncOf(op) = "BulkOut" THEN BulkOutPre(h, ep) ELSE BulkInPre(h, ep)

CtxPre(op, h, ep) ==
    IF op = "WriteContext" THEN WriteContextPre(h, ep) ELSE ReadContextPre(h, ep)

\* n, err := gusb.Ioctl(...): BulkOut / BulkIn return n either way, and the
\* error wrapped when there is one.
BulkResult_dropCount(op, k) ==
    IF k.err # NoErr THEN R(0, E(SyncOf(op) \o " failed", k.err))
    ELSE R(k.n, NilE)

BulkResult(op, k) ==
    IF k.err # NoErr THEN R(k.n, E(SyncOf(op) \o " failed", k.err))
    ELSE R(k.n, NilE)

\* ctx.Err() of a Context whose Done is closed or not.
CtxErr(dn) == E(Err(dn), NoErr)

\* case <-ctx.Done(): ready exactly when the Done channel is closed.
DoneReady_never(dn) == FALSE

DoneReady(dn) == dn

\* The result the caller takes from its select when it reads resultChan.
SelectResult_zeroCount(res, dn) == R(0, res.err)

SelectResult(res, dn) == res

\* BulkOut / BulkIn called directly: the preconditions, then the Ioctl, in
\* which the caller blocks.
SyncCall(t, op) ==
    /\ xpc[t] = "idle"
    /\ \E ep \in Endpoints, d \in alloc :
        /\ xop' = [xop EXCEPT ![t] = op]
        /\ xep' = [xep EXCEPT ![t] = ep]
        /\ xdev' = [xdev EXCEPT ![t] = d]
        /\ LET err == SyncPre(op, f[d], ep) IN
            IF err # NilE
            THEN /\ xpc' = [xpc EXCEPT ![t] = "ret"]
                 /\ xret' = [xret EXCEPT ![t] = R(0, err)]
                 /\ kcalls' = kcalls
            ELSE /\ xpc' = [xpc EXCEPT ![t] = "kernel"]
                 /\ xret' = xret
                 /\ kcalls' = [kcalls EXCEPT ![t] = @ + 1]
    /\ UNCHANGED <<tpc, tres, kout, kretSig>>
    /\ UNCHANGED <<ctxVars, devVars, openVars, cfgVars, bldVars, portVars, ifVars,
                   lkVars, epVars, diVars>>

\* WriteContext / ReadContext: the first select, on ctx.Done() with a default.
CtxCall(t, op) ==
    /\ xpc[t] = "idle"
    /\ \E ep \in Endpoints, d \in alloc :
        /\ xop' = [xop EXCEPT ![t] = op]
        /\ xep' = [xep EXCEPT ![t] = ep]
        /\ xdev' = [xdev EXCEPT ![t] = d]
    /\ IF DoneReady(done)
       THEN /\ xpc' = [xpc EXCEPT ![t] = "ret"]
            /\ xret' = [xret EXCEPT ![t] = R(0, CtxErr(done))]
       ELSE /\ xpc' = [xpc EXCEPT ![t] = "pre"]
            /\ xret' = xret
    /\ UNCHANGED <<tpc, tres, kcalls, kout, kretSig>>
    /\ UNCHANGED <<ctxVars, devVars, openVars, cfgVars, bldVars, portVars, ifVars,
                   lkVars, epVars, diVars>>

\* WriteContext / ReadContext: the preconditions, then make(chan
\* transferResult) and the go statement; the caller goes on to its select.
CtxSpawn(t) ==
    /\ xpc[t] = "pre"
    /\ LET err == CtxPre(xop[t], f[xdev[t]], xep[t]) IN
        IF err # NilE
        THEN /\ xpc' = [xpc EXCEPT ![t] = "ret"]
             /\ xret' = [xret EXCEPT ![t] = R(0, err)]
             /\ tpc' = tpc
        ELSE /\ xpc' = [xpc EXCEPT ![t] = "select"]
             /\ xret' = xret
             /\ tpc' = [tpc EXCEPT ![t] = "start"]
    /\ UNCHANGED <<xop, xep, xdev, tres, kcalls, kout, kretSig>>
    /\ UNCHANGED <<ctxVars, devVars, openVars, cfgVars, bldVars, portVars, ifVars,
                   lkVars, epVars, diVars>>

\* The goroutine: e.BulkOut(buf, 0) / e.BulkIn(buf, 0) up to its Ioctl.
TaskStart(t) ==
    /\ tpc[t] = "start"
    /\ LET err == SyncPre(xop[t], f[xdev[t]], xep[t]) IN
        IF err # NilE
        THEN /\ tpc' = [tpc EXCEPT ![t] = "send"]
             /\ tres' = [tres EXCEPT ![t] = R(0, err)]
             /\ kcalls' = kcalls
        ELSE /\ tpc' = [tpc EXCEPT ![t] = "kernel"]
             /\ tres' = tres
             /\ kcalls' = [kcalls EXCEPT ![t] = @ + 1]
    /\ UNCHANGED <<xop, xep, xdev, xpc, xret, kout, kretSig>>
    /\ UNCHANGED <<ctxVars, devVars, openVars, cfgVars, bldVars, portVars, ifVars,
                   lkVars, epVars, diVars>>

\* The kernel's bulk transfer call returns, to the caller of BulkOut / BulkIn
\* or to the goroutine, which goes on to resultChan <- transferResult{n, err}.
KernelReturn(t) ==
    /\ xpc[t] = "kernel" \/ tpc[t] = "kernel"
    /\ \E k \in KOutcomes :
        /\ kout' = [kout EXCEPT ![t] = k]
        /\ IF xpc[t] = "kernel"
           THEN /\ xret' = [xret EXCEPT ![t] = BulkResult(xop[t], k)]
                /\ xpc' = [xpc EXCEPT ![t] = "ret"]
                /\ UNCHANGED <<tpc, tres>>
           ELSE /\ tres' = [tres EXCEPT ![t] = BulkResult(xop[t], k)]
                /\ tpc' = [tpc EXCEPT ![t] = "send"]
                /\ UNCHANGED <<xpc, xret>>
    /\ kretSig' = [kretSig EXCEPT ![t] = IF done THEN "fired" ELSE "open"]
    /\ UNCHANGED <<xop, xep, xdev, kcalls>>
    /\ UNCHANGED <<ctxVars, devVars, openVars, cfgVars, bldVars, portVars, ifVars,
                   lkVars, epVars, diVars>>

\* The second select takes case result := <-resultChan. resultChan has no
\* buffer: the goroutine's send completes only with this receive.
SelectResultCase(t) ==
    /\ xpc[t] = "select"
    /\ tpc[t] = "send"
    /\ xret' = [xret EXCEPT ![t] = SelectResult(tres[t], done)]
    /\ xpc' = [xpc EXCEPT ![t] = "ret"]
    /\ tpc' = [tpc EXCEPT ![t] = "done"]
    /\ UNCHANGED <<xop, xep, xdev, tres, kcalls, kout, kretSig>>
    /\ UNCHANGED <<ctxVars, devVars, openVars, cfgVars, bldVars, portVars, ifVars,
                   lkVars, epVars, diVars>>

\* The second select takes case <-ctx.Done(): return 0, ctx.Err().
SelectDoneCase(t) ==
    /\ xpc[t] = "select"
    /\ DoneReady(done)
    /\ xret' = [xret EXCEPT ![t] = R(0, CtxErr(done))]
    /\ xpc' = [xpc EXCEPT ![t] = "ret"]
    /\ UNCHANGED <<xop, xep, xdev, tpc, tres, kcalls, kout, kretSig>>
    /\ UNCHANGED <<ctxVars, devVars, openVars, cfgVars, bldVars, portVars, ifVars,
                   lkVars, epVars, diVars>>

\* ----------------------------------------------------- configuration code
\* The most configurations a device descriptor declares.
MaxConfigs == 3

\* A Go index expression s[i] on a slice of length len panics unless this
\* holds.
IndexOK(i, len) == 0 <= i /\ i < len

\* The orders in which n configuration records, Values 1..n, can appear.
Perms(n) == {s \in [1..n -> 1..n] : \A i, j \in 1..n : i # j => s[i] # s[j]}

\* The most interfaces a configuration record declares.
MaxIfaces == 2

\* The interface records of a configuration record that declares ni
\* interfaces: in the order of their numbers, and in every order.
CanonIfaces(ni) == [k \in 1..ni |-> [InterfaceNumber |-> k - 1]]
OrderedIfaces(ni) ==
    {[k \in 1..ni |-> [InterfaceNumber |-> s[k] - 1]] : s \in Perms(ni)}

\* gusb.DeviceDescriptor, as far as Configs is built from it: NumConfigs and,
\* for each record of dd.Configs, its Value, NumInterfaces and Interfaces.
\* Selectors are unique and 1..NumConfigs, interface numbers unique and
\* 0..NumInterfaces-1; the configuration records come in any order.
Descriptors ==
    UNION {{[NumConfigs |-> n,
             Configs |-> [k \in 1..n |->
                            [Value |-> s[k], NumInterfaces |-> ni[k],
                             Interfaces |-> CanonIfaces(ni[k])]]] :
                s \in Perms(n), ni \in [1..n -> 0..MaxIfaces]} :
           n \in 1..MaxConfigs}

\* The zero Interface and Configuration, which make([]Interface, n) and
\* make([]Configuration, n) fill a slice with (d is the back-reference: set).
ZeroInterface == [ID |-> 0, d |-> FALSE]
ZeroConfig == [Value |-> 0, Interfaces |-> <<>>, d |-> FALSE]

\* toInterface: the Interface of an interface record.
toInterface(i) == [ID |-> i.InterfaceNumber, d |-> TRUE]

\* make([]Interface, c.NumInterfaces), then cfg.Interfaces[intf.InterfaceNumber]
\* = toInterface(intf, d) for the first k records of c.Interfaces; ok is FALSE
\* when an index was out of range (a panic).
RECURSIVE PlaceIfaces(_, _)
PlaceIfaces(c, k) ==
    IF k = 0
    THEN [ok |-> TRUE, ifs |-> [i \in 1..c.NumInterfaces |-> ZeroInterface]]
    ELSE LET prev == PlaceIfaces(c, k - 1)
             intf == c.Interfaces[k]
         IN IF ~prev.ok \/ ~IndexOK(intf.InterfaceNumber, c.NumInterfaces)
            THEN [ok |-> FALSE, ifs |-> prev.ifs]
            ELSE [ok |-> TRUE,
                  ifs |-> [prev.ifs EXCEPT ![intf.InterfaceNumber + 1] =
                                                toInterface(intf)]]

\* toConfig: the Configuration of a record: its selector, and Interfaces with
\* every interface record placed at the index that is its number.
toConfig(c) ==
    [Value |-> c.Value,
     Interfaces |-> PlaceIfaces(c, Len(c.Interfaces)).ifs,
     d |-> TRUE]

\* The configuration records appended in the order they appear.
RECURSIVE PlaceConfigs_append(_, _)
PlaceConfigs_append(dd, k) ==
    IF k = 0
    THEN [ok |-> TRUE, cfgs |-> <<>>]
    ELSE [ok |-> TRUE,
          cfgs |-> Append(PlaceConfigs_append(dd, k - 1).cfgs,
                          toConfig(dd.Configs[k]))]

\* make([]Configuration, dd.NumConfigs), then d.Configs[c.Value-1] =
\* toConfig(c, d) for the first k records; ok is FALSE when an index was out
\* of range (a panic).
RECURSIVE PlaceConfigs(_, _)
PlaceConfigs(dd, k) ==
    IF k = 0
    THEN [ok |-> TRUE, cfgs |-> [i \in 1..dd.NumConfigs |-> ZeroConfig]]
    ELSE LET prev == PlaceConfigs(dd, k - 1)
             c == dd.Configs[k]
         IN IF \/ ~prev.ok
               \/ ~IndexOK(c.Value - 1, dd.NumConfigs)
               \/ ~PlaceIfaces(c, Len(c.Interfaces)).ok
            THEN [ok |-> FALSE, cfgs |-> prev.cfgs]
            ELSE [ok |-> TRUE,
                  cfgs |-> [prev.cfgs EXCEPT ![c.Value] = toConfig(c)]]

\* cfg, err := d.dataSource.getActiveConfig(*d); on an error cfg = 1.
ActiveSelector(acVal, acErr) == IF acErr # NoErr THEN 1 ELSE acVal

\* What the two calls into the data backing report.
BackingErrs == {NoErr, "EIO"}

\* d.dataSource.setConfiguration(*d, cfg): it can fail for any selector and
\* succeed for the selector of a configuration the device has.
SetCfgResults(cfgs, cfg) ==
    {"EINVAL"} \cup
        (IF \E i \in 1..Len(cfgs) : cfgs[i].Value = cfg THEN {NoErr} ELSE {})

\* The selectors SetConfiguration is called with: 0 (none) up to one past the
\* last configuration.
Selectors == 0..(MaxConfigs + 1)

\* Device.SetConfiguration: whether d.ActiveConfig is assigned.
SetConfigurationAssigns(err) == err # NoErr

NoCall == [cfg |-> 0, err |-> "none", before |-> 0]

\* Speed: SpeedUnknown and one speed a device reports.
SpeedUnknown == 0
SpeedHigh == 3
Speeds == {SpeedUnknown, SpeedHigh}

\* The queries toDevice makes to d.dataSource, each of which can fail.
Queries ==
    {"getDevNum", "getBusNum", "getVendorName", "getProductName", "getPort",
     "getActiveConfig", "getSpeed", "getParent"}

\* The error a query returns.
QueryErr(q, name) == IF name \in q.failed THEN "EIO" ELSE NoErr

\* toDevice(dd), with the data backing answering q: Configs, ActiveConfig (an
\* index into Configs) and Speed of the Device returned; ok is FALSE when an
\* index expression panicked and no Device is returned. The failures of the
\* other queries are logged and nothing else.
toDeviceOf(dd, q) ==
    LET placed == PlaceConfigs(dd, Len(dd.Configs))
        cfg == ActiveSelector(q.acVal, QueryErr(q, "getActiveConfig"))
    IN IF ~placed.ok \/ ~IndexOK(cfg - 1, Len(placed.cfgs))
       THEN [ok |-> FALSE, Configs |-> <<>>, ActiveConfig |-> 0,
             Speed |-> SpeedUnknown]
       ELSE [ok |-> TRUE, Configs |-> placed.cfgs, ActiveConfig |-> cfg,
             Speed |-> IF QueryErr(q, "getSpeed") # NoErr
                       THEN SpeedUnknown ELSE q.speed]

\* toDevice, as far as Configs and ActiveConfig go. The backing reports, when
\* it reports one, the selector of a configuration of the device.
toDevice ==
    /\ ~panicked
    /\ \E dd \in Descriptors, acErr \in BackingErrs :
        \E acVal \in 1..dd.NumConfigs :
            LET r == toDeviceOf(dd,
                        [failed |-> IF acErr = NoErr THEN {}
                                    ELSE {"getActiveConfig"},
                         acVal |-> acVal, speed |-> SpeedUnknown])
            IN IF r.ok
               THEN /\ Configs' = r.Configs
                    /\ ActiveConfig' = r.ActiveConfig
                    /\ panicked' = FALSE
               ELSE panicked' = TRUE /\ UNCHANGED <<Configs, ActiveConfig>>
    /\ scall' = NoCall
    /\ UNCHANGED <<ctxVars, devVars, openVars, xferVars, bldVars, portVars, ifVars,
                   lkVars, epVars, diVars>>

\* The most configurations of a descriptor whose records are taken in every
\* order, interface records included.
MaxBuildConfigs == 2

\* The interface record lists of a configuration record, in every order.
IfaceLists == UNION {OrderedIfaces(ni) : ni \in 0..MaxIfaces}

\* Descriptors with the configuration records and, within each, the interface
\* records in every order.
BuildDescriptors ==
    UNION {{[NumConfigs |-> n,
             Configs |-> [k \in 1..n |->
                            [Value |-> s[k], NumInterfaces |-> Len(ifs[k]),
                             Interfaces |-> ifs[k]]]] :
                s \in Perms(n), ifs \in [1..n -> IfaceLists]} :
           n \in 1..MaxBuildConfigs}

\* Descriptors with their records in the order of their selectors.
QueryDescriptors ==
    {dd \in Descriptors : \A k \in 1..dd.NumConfigs : dd.Configs[k].Value = k}

\* What the backing answers: which queries fail, the active configuration
\* value and the speed it reports.
QueryAnswers(dd, failing) ==
    [failed : failing, acVal : 0..(dd.NumConfigs + 1), speed : Speeds]

NoDescriptor == [NumConfigs |-> 0, Configs |-> <<>>]
NoAnswers == [failed |-> {}, acVal |-> 0, speed |-> SpeedUnknown]
NotBuilt == [state |-> "none", ok |-> FALSE, Configs |-> <<>>,
             ActiveConfig |-> 0, Speed |-> SpeedUnknown]

\* List: devs[i] = toDevice(dd[i]) for one descriptor of the walk.
List ==
    /\ built.state = "none"
    /\ bdd # NoDescriptor
    /\ LET r == toDeviceOf(bdd, bq)
       IN built' = [state |-> "done", ok |-> r.ok, Configs |-> r.Configs,
                    ActiveConfig |-> r.ActiveConfig, Speed |-> r.Speed]
    /\ UNCHANGED <<bdd, bq>>
    /\ UNCHANGED <<ctxVars, devVars, openVars, xferVars, cfgVars, portVars, ifVars,
                   lkVars, epVars, diVars>>

\* Device.SetConfiguration(cfg): &d.Configs[cfg-1] is position cfg of Configs.
SetConfiguration(cfg) ==
    /\ ~panicked
    /\ Configs # <<>>
    /\ \E err \in SetCfgResults(Configs, cfg) :
        IF SetConfigurationAssigns(err)
        THEN IF IndexOK(cfg - 1, Len(Configs))
             THEN /\ ActiveConfig' = cfg
                  /\ panicked' = FALSE
                  /\ scall' = [cfg |-> cfg, err |-> err, before |-> ActiveConfig]
             ELSE /\ panicked' = TRUE
                  /\ scall' = [cfg |-> cfg, err |-> "panic", before |-> ActiveConfig]
                  /\ UNCHANGED ActiveConfig
        ELSE /\ scall' = [cfg |-> cfg, err |-> err, before |-> ActiveConfig]
             /\ UNCHANGED <<ActiveConfig, panicked>>
    /\ UNCHANGED Configs
    /\ UNCHANGED <<ctxVars, devVars, openVars, xferVars, bldVars, portVars, ifVars,
                   lkVars, epVars, diVars>>

\* ------------------------------------------------------------ topology code
\* The most devices of a Parent chain, and the largest port number.
MaxDepth == 3
MaxPort == 3

\* const MAX_PORTS = 7: the capacity ports is made with.
MAX_PORTS == 7

\* The devices of a topology; device 1 is the one getPorts is called with.
Nodes == 1..MaxDepth
PortVals == 0..MaxPort

\* ports is followed up to one element past MAX_PORTS; append is then left
\* out, and the walk goes on.
WalkCap == MAX_PORTS + 1

\* The Parent chains: device 1, its parent 2, ... up to device n, whose Parent
\* is nil or, in an inconsistent topology, a device of the chain again.
Topologies ==
    UNION {{[i \in Nodes |-> IF i < n THEN i + 1 ELSE IF i = n THEN top ELSE 0] :
                top \in 0..n} : n \in Nodes}

\* The number of devices of a chain that ends.
ChainLength(par) ==
    CHOOSE n \in Nodes : par[n] = 0 /\ \A i \in 1..(n - 1) : par[i] = i + 1

\* The reversal loop: for i := len(ports)/2 - 1; i >= 0; i-- swaps ports[i]
\* and ports[len(ports)-1-i] (0-based).
RECURSIVE ReverseFrom(_, _)
ReverseFrom(ports, i) ==
    IF i < 0 THEN ports
    ELSE LET swap == Len(ports) - 1 - i
         IN ReverseFrom([ports EXCEPT ![i + 1] = ports[swap + 1],
                                      ![swap + 1] = ports[i + 1]], i - 1)

ReversePorts_none(ports) == ports
ReversePorts(ports) == ReverseFrom(ports, (Len(ports) \div 2) - 1)

\* getPorts(d): ports := make([]int, 0, MAX_PORTS); dev := &d.
getPortsCall ==
    /\ gpc = "idle"
    /\ gpc' = "loop"
    /\ gdev' = 1
    /\ gports' = <<>>
    /\ UNCHANGED <<Parent, Port>>
    /\ UNCHANGED <<ctxVars, devVars, openVars, xferVars, cfgVars, bldVars, ifVars,
                   lkVars, epVars, diVars>>

\* One iteration of for dev := &d; dev != nil; dev = dev.Parent.
getPortsStep ==
    /\ gpc = "loop"
    /\ gdev # 0
    /\ gports' = IF Port[gdev] # 0 /\ Len(gports) < WalkCap
                 THEN Append(gports, Port[gdev])
                 ELSE gports
    /\ gdev' = Parent[gdev]
    /\ UNCHANGED <<Parent, Port, gpc>>
    /\ UNCHANGED <<ctxVars, devVars, openVars, xferVars, cfgVars, bldVars, ifVars,
                   lkVars, epVars, diVars>>

\* dev == nil: the reversal, and return ports.
getPortsReturn ==
    /\ gpc = "loop"
    /\ gdev = 0
    /\ gports' = ReversePorts(gports)
    /\ gpc' = "done"
    /\ UNCHANGED <<Parent, Port, gdev>>
    /\ UNCHANGED <<ctxVars, devVars, openVars, xferVars, cfgVars, bldVars, ifVars,
                   lkVars, epVars, diVars>>

\* ----------------------------------------------------------- interface code
\* The interfaces of the device.
NumIntfs == 2
Intfs == 1..NumIntfs

\* The length of GetDriverS.Driver, the buffer the kernel writes the driver
\* name into.
DriverBufLen == 2

\* What gusb.Ioctl returns: r and errno.
Ok == [r |-> 0, errno |-> NoErr]
Fail(errno) == [r |-> -1, errno |-> errno]

\* The kernel's answers. USBDEVFS_DISCONNECT unbinds the bound driver, and
\* answers ENODATA when none is bound; USBDEVFS_CLAIMINTERFACE is refused
\* while a kernel driver is bound, and can be refused when none is (another
\* handle has the interface); USBDEVFS_RELEASEINTERFACE needs the claim;
\* USBDEVFS_CONNECT binds the matching driver, if the kernel has one;
\* USBDEVFS_GETDRIVER answers ENODATA when no driver is bound. Each can fail.
DisconnectAnswers(drv) ==
    IF drv # "none" THEN {Ok, Fail("EIO")} ELSE {Fail("ENODATA"), Fail("EIO")}
ClaimAnswers(cl, drv) ==
    IF cl THEN {Ok}
    ELSE IF drv # "none" THEN {Fail("EBUSY")}
    ELSE {Ok, Fail("EBUSY")}
ReleaseAnswers(cl) == IF cl THEN {Ok, Fail("EIO")} ELSE {Fail("EINVAL")}
ConnectAnswers == {Ok, Fail("EIO")}
GetDriverAnswers(drv) ==
    IF drv # "none" THEN {Ok, Fail("EIO")} ELSE {Fail("ENODATA"), Fail("EIO")}

\* drv := GetDriverS{Interface: ...}: Driver is zero-filled; the kernel writes
\* the name, one byte here, and its terminating zero when it answers with a
\* driver.
ZeroDriverBuf == [i \in 1..DriverBufLen |-> 0]
DriverBuf(ans) ==
    IF ans.r = 0 THEN [ZeroDriverBuf EXCEPT ![1] = 1] ELSE ZeroDriverBuf

\* string(drv.Driver[:]): every byte of the buffer; "" is <<>>.
DriverString(buf) == buf

NoIRet == [name |-> <<>>, err |-> "none"]
IRet(name, err) == [name |-> name, err |-> err]
NoTrip == [phase |-> "none", claimed |-> FALSE, driver |-> "none"]

\* gusb.Claim: whether it goes on to USBDEVFS_CLAIMINTERFACE after the answer
\* to the disconnect request.
ClaimGoesOn_unlessDetachFailed(ans) == ans.r # -1 \/ ans.errno = "ENODATA"
ClaimGoesOn(ans) == TRUE

\* gusb.Claim: the error returned for the answer to the claim request.
ClaimResult(ans) == IF ans.r = -1 THEN ans.errno ELSE NoErr

\* gusb.Release: the error returned for the answer to the release request
\* (returned at once when not nil), and for the answer to the connect request.
ReleaseResult(ans) == IF ans.r = -1 THEN ans.errno ELSE NoErr
ConnectResult_surfaced(ans) == IF ans.r = -1 THEN ans.errno ELSE NoErr
ConnectResult(ans) == NoErr

\* gusb.Release: whether the connect request follows a release request that
\* succeeded.
ReleaseReconnects_never(ans) == FALSE
ReleaseReconnects(ans) == ans.r # -1

\* gusb.GetDriver: what it returns for the answer to USBDEVFS_GETDRIVER.
GetDriverResult(ans) ==
    IF ans.errno = "ENODATA" THEN IRet(DriverString(DriverBuf(ans)), NoErr)
    ELSE IF ans.errno # NoErr THEN IRet(<<>>, ans.errno)
    ELSE IRet(DriverString(DriverBuf(ans)), NoErr)

\* Interface.Claim is called on interface i.
ClaimCall(i) ==
    /\ ipc = "idle"
    /\ iif' = i
    /\ iop' = "Claim"
    /\ ipc' = "disconnect"
    /\ ireqs' = <<>>
    /\ ians' = <<>>
    /\ iret' = NoIRet
    /\ trip' = IF ~claimed[i]
               THEN [phase |-> "claiming", claimed |-> claimed[i],
                     driver |-> driver[i]]
               ELSE NoTrip
    /\ UNCHANGED <<claimed, driver, kmatch>>
    /\ UNCHANGED <<ctxVars, devVars, openVars, xferVars, cfgVars, bldVars, portVars,
                   lkVars, epVars, diVars>>

\* Ioctl(f, USBDEVFS_IOCTL, {USBDEVFS_DISCONNECT}) and the branches on it.
ClaimDisconnect ==
    /\ ipc = "disconnect"
    /\ \E ans \in DisconnectAnswers(driver[iif]) :
        /\ ireqs' = Append(ireqs, "DISCONNECT")
        /\ ians' = Append(ians, ans)
        /\ driver' = [driver EXCEPT ![iif] = IF ans.r = 0 THEN "none" ELSE @]
        /\ IF ClaimGoesOn(ans)
           THEN ipc' = "claim" /\ UNCHANGED <<iret, trip>>
           ELSE ipc' = "idle" /\ iret' = IRet(<<>>, ans.errno) /\ trip' = NoTrip
    /\ UNCHANGED <<claimed, kmatch, iif, iop>>
    /\ UNCHANGED <<ctxVars, devVars, openVars, xferVars, cfgVars, bldVars, portVars,
                   lkVars, epVars, diVars>>

\* Ioctl(f, USBDEVFS_CLAIMINTERFACE, &ifno) and the return.
ClaimClaimInterface ==
    /\ ipc = "claim"
    /\ \E ans \in ClaimAnswers(claimed[iif], driver[iif]) :
        /\ ireqs' = Append(ireqs, "CLAIMINTERFACE")
        /\ ians' = Append(ians, ans)
        /\ claimed' = [claimed EXCEPT ![iif] = (@ \/ ans.r = 0)]
        /\ iret' = IRet(<<>>, ClaimResult(ans))
        /\ trip' = IF trip.phase = "claiming" /\ ClaimResult(ans) = NoErr
                   THEN [trip EXCEPT !.phase = "claimed"]
                   ELSE NoTrip
    /\ ipc' = "idle"
    /\ UNCHANGED <<driver, kmatch, iif, iop>>
    /\ UNCHANGED <<ctxVars, devVars, openVars, xferVars, cfgVars, bldVars, portVars,
                   lkVars, epVars, diVars>>

\* Interface.Release is called on interface i.
ReleaseCall(i) ==
    /\ ipc = "idle"
    /\ iif' = i
    /\ iop' = "Release"
    /\ ipc' = "release"
    /\ ireqs' = <<>>
    /\ ians' = <<>>
    /\ iret' = NoIRet
    /\ trip' = IF trip.phase = "claimed" /\ iif = i
               THEN [trip EXCEPT !.phase = "releasing"]
               ELSE NoTrip
    /\ UNCHANGED <<claimed, driver, kmatch>>
    /\ UNCHANGED <<ctxVars, devVars, openVars, xferVars, cfgVars, bldVars, portVars,
                   lkVars, epVars, diVars>>

\* Ioctl(f, USBDEVFS_RELEASEINTERFACE, &ifno) and the return on a failure.
ReleaseReleaseInterface ==
    /\ ipc = "release"
    /\ \E ans \in ReleaseAnswers(claimed[iif]) :
        /\ ireqs' = Append(ireqs, "RELEASEINTERFACE")
        /\ ians' = Append(ians, ans)
        /\ claimed' = [claimed EXCEPT ![iif] = (@ /\ ans.r # 0)]
        /\ IF ReleaseResult(ans) # NoErr
           THEN /\ iret' = IRet(<<>>, ReleaseResult(ans))
                /\ ipc' = "idle"
                /\ trip' = NoTrip
           ELSE IF ReleaseReconnects(ans)
           THEN /\ ipc' = "connect"
                /\ UNCHANGED <<iret, trip>>
           ELSE /\ iret' = IRet(<<>>, NoErr)
                /\ ipc' = "idle"
                /\ trip' = IF trip.phase = "releasing"
                           THEN [trip EXCEPT !.phase = "done"]
                           ELSE NoTrip
    /\ UNCHANGED <<driver, kmatch, iif, iop>>
    /\ UNCHANGED <<ctxVars, devVars, openVars, xferVars, cfgVars, bldVars, portVars,
                   lkVars, epVars, diVars>>

\* Ioctl(f, USBDEVFS_IOCTL, {USBDEVFS_CONNECT}), the log line and return nil.
ReleaseConnect ==
    /\ ipc = "connect"
    /\ \E ans \in ConnectAnswers :
        /\ ireqs' = Append(ireqs, "CONNECT")
        /\ ians' = Append(ians, ans)
        /\ driver' = [driver EXCEPT ![iif] =
                        IF ans.r = 0 /\ kmatch[iif] THEN "kdrv" ELSE @]
        /\ iret' = IRet(<<>>, ConnectResult(ans))
    /\ trip' = IF trip.phase = "releasing"
               THEN [trip EXCEPT !.phase = "done"]
               ELSE NoTrip
    /\ ipc' = "idle"
    /\ UNCHANGED <<claimed, kmatch, iif, iop>>
    /\ UNCHANGED <<ctxVars, devVars, openVars, xferVars, cfgVars, bldVars, portVars,
                   lkVars, epVars, diVars>>

\* gusb.GetDriver on interface i: one USBDEVFS_GETDRIVER request. It ends a
\* round trip that is under way on another interface.
GetDriver(i) ==
    /\ ipc = "idle"
    /\ \E ans \in GetDriverAnswers(driver[i]) :
        /\ ireqs' = <<"GETDRIVER">>
        /\ ians' = <<ans>>
        /\ iret' = GetDriverResult(ans)
    /\ iop' = "GetDriver"
    /\ iif' = i
    /\ trip' = IF iif = i THEN trip ELSE NoTrip
    /\ UNCHANGED <<claimed, driver, kmatch, ipc>>
    /\ UNCHANGED <<ctxVars, devVars, openVars, xferVars, cfgVars, bldVars, portVars,
                   lkVars, epVars, diVars>>

\* ------------------------------------------------- interface lookup code
ErrNoActiveConfig == "usb: device has no active configuration"
ErrNoInterfacesInConfig == "usb: active configuration has no interfaces"
ErrInvalidInterfaceIndex == "usb: interface index out of bounds"

\* *Interface: the configuration (a position of Configs) and the position in
\* its Interfaces the pointer refers to; nil.
IntfRef(cfg, pos) == [cfg |-> cfg, pos |-> pos]
NilIntf == IntfRef(0, 0)

\* Device.Interface(i) without the test for a configuration that has no
\* interfaces.
Interface_noEmptyCheck(cfgs, ac, i) ==
    IF ac = 0
    THEN [intf |-> NilIntf, err |-> E(ErrNoActiveConfig, NoErr)]
    ELSE IF i < 0 \/ i >= Len(cfgs[ac].Interfaces)
    THEN [intf |-> NilIntf,
          err |-> E("index %d, available 0 to %d", ErrInvalidInterfaceIndex)]
    ELSE [intf |-> IntfRef(ac, i + 1), err |-> NilE]

\* Device.Interface(i) of a Device whose Configs is cfgs and whose
\* ActiveConfig is position ac of it (0 for nil): the tests in the order the
\* code makes them, then &d.ActiveConfig.Interfaces[i]. The third error is
\* fmt.Errorf("%w: ...", ErrInvalidInterfaceIndex, ...).
Interface(cfgs, ac, i) ==
    IF ac = 0
    THEN [intf |-> NilIntf, err |-> E(ErrNoActiveConfig, NoErr)]
    ELSE IF Len(cfgs[ac].Interfaces) = 0
    THEN [intf |-> NilIntf, err |-> E(ErrNoInterfacesInConfig, NoErr)]
    ELSE IF i < 0 \/ i >= Len(cfgs[ac].Interfaces)
    THEN [intf |-> NilIntf,
          err |-> E("index %d, available 0 to %d", ErrInvalidInterfaceIndex)]
    ELSE [intf |-> IntfRef(ac, i + 1), err |-> NilE]

\* The interface of the device, as the kernel numbers them, that an Interface
\* stands for: the one whose number is its ID.
KernelIntf(cfgs, ref) == cfgs[ref.cfg].Interfaces[ref.pos].ID + 1

\* The indexes Device.Interface is called with: -1 up to the most interfaces
\* a configuration has, which is past the end of every Interfaces.
LookupArgs == (0 - 1)..MaxIfaces

NoLookup == [op |-> "none", i |-> 0, intf |-> NilIntf, err |-> E("none", NoErr)]
Lookup(op, i, r) == [op |-> op, i |-> i, intf |-> r.intf, err |-> r.err]

\* d.Interface(i), called by itself.
InterfaceCall(i) ==
    /\ ipc = "idle"
    /\ lk' = Lookup("Interface", i, Interface(Configs, ActiveConfig, i))
    /\ UNCHANGED <<ctxVars, devVars, openVars, xferVars, cfgVars, bldVars, portVars,
                   ifVars, epVars, diVars>>

\* Device.ClaimInterface(intf): d.Interface(intf), the error returned at once,
\* else i.Claim() entered.
ClaimInterface(i) ==
    /\ ipc = "idle"
    /\ LET r == Interface(Configs, ActiveConfig, i) IN
        /\ lk' = Lookup("ClaimInterface", i, r)
        /\ IF r.err # NilE
           THEN UNCHANGED ifVars
           ELSE LET n == KernelIntf(Configs, r.intf) IN
                /\ iif' = n
                /\ iop' = "Claim"
                /\ ipc' = "disconnect"
                /\ ireqs' = <<>>
                /\ ians' = <<>>
                /\ iret' = NoIRet
                /\ trip' = IF ~claimed[n]
                           THEN [phase |-> "claiming", claimed |-> claimed[n],
                                 driver |-> driver[n]]
                           ELSE NoTrip
                /\ UNCHANGED <<claimed, driver, kmatch>>
    /\ UNCHANGED <<ctxVars, devVars, openVars, xferVars, cfgVars, bldVars, portVars,
                   epVars, diVars>>

\* Device.ReleaseInterface(intf): d.Interface(intf), the error returned at
\* once, else i.Release() entered.
ReleaseInterface(i) ==
    /\ ipc = "idle"
    /\ LET r == Interface(Configs, ActiveConfig, i) IN
        /\ lk' = Lookup("ReleaseInterface", i, r)
        /\ IF r.err # NilE
           THEN UNCHANGED ifVars
           ELSE LET n == KernelIntf(Configs, r.intf) IN
                /\ iif' = n
                /\ iop' = "Release"
                /\ ipc' = "release"
                /\ ireqs' = <<>>
                /\ ians' = <<>>
                /\ iret' = NoIRet
                /\ trip' = IF trip.phase = "claimed" /\ iif = n
                           THEN [trip EXCEPT !.phase = "releasing"]
                           ELSE NoTrip
                /\ UNCHANGED <<claimed, driver, kmatch>>
    /\ UNCHANGED <<ctxVars, devVars, openVars, xferVars, cfgVars, bldVars, portVars,
                   epVars, diVars>>

\* Device.GetDriver(intf): d.Interface(intf), the error returned at once with
\* "", else i.GetDriver(): the one USBDEVFS_GETDRIVER request.
DeviceGetDriver(i) ==
    /\ ipc = "idle"
    /\ LET r == Interface(Configs, ActiveConfig, i) IN
        /\ lk' = Lookup("GetDriver", i, r)
        /\ IF r.err # NilE
           THEN UNCHANGED ifVars
           ELSE LET n == KernelIntf(Configs, r.intf) IN
                /\ \E ans \in GetDriverAnswers(driver[n]) :
                    /\ ireqs' = <<"GETDRIVER">>
                    /\ ians' = <<ans>>
                    /\ iret' = GetDriverResult(ans)
                /\ iop' = "GetDriver"
                /\ iif' = n
                /\ trip' = IF iif = n THEN trip ELSE NoTrip
                /\ UNCHANGED <<claimed, driver, kmatch, ipc>>
    /\ UNCHANGED <<ctxVars, devVars, openVars, xferVars, cfgVars, bldVars, portVars,
                   epVars, diVars>>

\* ------------------------------------------------- endpoint lookup code
\* The most endpoints an interface has.
MaxEps == 3

\* Interface.Endpoints: the endpoints of an interface, in list order.
EndpointLists == UNION {[1..n -> Endpoints] : n \in 0..MaxEps}

\* (*OutEndpoint, error) / (*InEndpoint, error): the endpoint the returned
\* value embeds, a copy of the list's (NoEp with nil), and the error.
Got(ep, err) == [ep |-> ep, err |-> err]
NoGot == Got(NoEp, E("none", NoErr))

\* The range loop of GetOutEndpoint from position k on: the first endpoint
\* with (ep.Address & 0x80) == 0 is returned, and an error after the last.
RECURSIVE GetOutEndpointFrom(_, _)
GetOutEndpointFrom(eps, k) ==
    IF k > Len(eps)
    THEN Got(NoEp, E("no OUT endpoint found in interface", NoErr))
    ELSE IF ~IsIn(eps[k].Address) THEN Got(eps[k], NilE)
    ELSE GetOutEndpointFrom(eps, k + 1)

\* The loop taking the first endpoint whatever its direction.
GetOutEndpoint_anyDirection(eps) ==
    IF eps = <<>>
    THEN Got(NoEp, E("no OUT endpoint found in interface", NoErr))
    ELSE Got(eps[1], NilE)

GetOutEndpoint(eps) == GetOutEndpointFrom(eps, 1)

\* The range loop of GetInEndpoint: (ep.Address & 0x80) != 0.
RECURSIVE GetInEndpointFrom(_, _)
GetInEndpointFrom(eps, k) ==
    IF k > Len(eps)
    THEN Got(NoEp, E("no IN endpoint found in interface", NoErr))
    ELSE IF IsIn(eps[k].Address) THEN Got(eps[k], NilE)
    ELSE GetInEndpointFrom(eps, k + 1)

GetInEndpoint(eps) == GetInEndpointFrom(eps, 1)

\* i.GetOutEndpoint() is called and returns.
GetOutEndpointCall ==
    /\ gout' = GetOutEndpoint(ieps)
    /\ UNCHANGED <<ieps, gin>>
    /\ UNCHANGED <<ctxVars, devVars, openVars, xferVars, cfgVars, bldVars, portVars,
                   ifVars, lkVars, diVars>>

\* i.GetInEndpoint() is called and returns.
GetInEndpointCall ==
    /\ gin' = GetInEndpoint(ieps)
    /\ UNCHANGED <<ieps, gout>>
    /\ UNCHANGED <<ctxVars, devVars, openVars, xferVars, cfgVars, bldVars, portVars,
                   ifVars, lkVars, diVars>>

\* ------------------------------------------------- DefaultInterface code
\* The Device DefaultInterface is called on: which one makes no difference.
DefDev == CHOOSE d \in Devs : TRUE

\* What the kernel answers to a request made on a *os.File that is nil or
\* closed.
BadHandle == Fail("EBADF")

\* Device.DefaultInterface up to the call of intf.Claim(): d.Interface(0),
\* whose error is returned at once; d.Open(), whose error is dropped; then
\* intf.Claim() is entered. On a handle that d.Open() left nil or closed both
\* requests of Claim are answered EBADF, Claim returns that and
\* DefaultInterface returns it with no cleanup function.
DefaultInterface ==
    /\ dipc = "idle"
    /\ ipc = "idle"
    /\ LET r == Interface(Configs, ActiveConfig, 0) IN
        /\ lk' = Lookup("DefaultInterface", 0, r)
        /\ IF r.err # NilE
           THEN /\ dipc' = "idle"
                /\ UNCHANGED <<f, dlast, ifVars>>
           ELSE LET n == KernelIntf(Configs, r.intf) IN
                /\ \E openErr \in OsResults :
                    /\ f' = [f EXCEPT ![DefDev] = DeviceOpenF(f[DefDev], openErr)]
                    /\ IF f'[DefDev] = "open"
                       THEN /\ dipc' = "claim"
                            /\ ipc' = "disconnect"
                            /\ ireqs' = <<>>
                            /\ ians' = <<>>
                            /\ iret' = NoIRet
                       ELSE /\ dipc' = "idle"
                            /\ ipc' = "idle"
                            /\ ireqs' = <<"DISCONNECT", "CLAIMINTERFACE">>
                            /\ ians' = <<BadHandle, BadHandle>>
                            /\ iret' = IRet(<<>>, ClaimResult(BadHandle))
                /\ dlast' = IF dlast.dev = DefDev THEN NoClose ELSE dlast
                /\ iif' = n
                /\ iop' = "Claim"
                /\ trip' = NoTrip
                /\ UNCHANGED <<claimed, driver, kmatch>>
    /\ UNCHANGED <<alloc, dctx, relh>>
    /\ UNCHANGED <<ctxVars, openVars, xferVars, cfgVars, bldVars, portVars, epVars>>

\* intf.Claim() has returned: its error is returned with no cleanup function,
\* else the interface and the cleanup function are.
DefaultInterfaceReturn ==
    /\ dipc = "claim"
    /\ ipc = "idle"
    /\ dipc' = IF iret.err # NoErr THEN "idle" ELSE "held"
    /\ UNCHANGED relh
    /\ UNCHANGED <<ctxVars, devVars, openVars, xferVars, cfgVars, bldVars, portVars,
                   ifVars, lkVars, epVars>>

\* The cleanup function, first statement: d.Close(). With the handle closed
\* the kernel drops the claims made through it.
CleanupClose ==
    /\ dipc = "held"
    /\ devices' = IF dctx[DefDev] THEN closeDev(devices, DefDev) ELSE devices
    /\ dctx' = [dctx EXCEPT ![DefDev] = FALSE]
    /\ f' = [f EXCEPT ![DefDev] = DeviceCloseF(f[DefDev])]
    /\ \E osErr \in OsResults :
        dlast' = [dev |-> DefDev, err |-> DeviceCloseErr(f[DefDev], osErr)]
    /\ claimed' = IF f[DefDev] = "open" THEN [i \in Intfs |-> FALSE] ELSE claimed
    /\ dipc' = "closed"
    /\ UNCHANGED <<alloc, relh>>
    /\ UNCHANGED <<done, closeOnce, fires, cpc, cres, epc, lastErr>>
    /\ UNCHANGED <<driver, kmatch, iif, iop, ipc, ireqs, ians, iret, trip>>
    /\ UNCHANGED <<openVars, xferVars, cfgVars, bldVars, portVars, lkVars, epVars>>

\* The cleanup function, second statement: intf.Release(), with d.f as it is
\* now. On an open handle gusb.Release is entered; on a nil or closed one its
\* release request is answered EBADF and it returns that, which the cleanup
\* function drops.
CleanupRelease ==
    /\ dipc = "closed"
    /\ ipc = "idle"
    /\ relh' = f[DefDev]
    /\ iif' = KernelIntf(Configs, lk.intf)
    /\ iop' = "Release"
    /\ trip' = NoTrip
    /\ IF f[DefDev] = "open"
       THEN /\ ipc' = "release"
            /\ ireqs' = <<>>
            /\ ians' = <<>>
            /\ iret' = NoIRet
       ELSE /\ ipc' = "idle"
            /\ ireqs' = <<"RELEASEINTERFACE">>
            /\ ians' = <<BadHandle>>
            /\ iret' = IRet(<<>>, ReleaseResult(BadHandle))
    /\ dipc' = "release"
    /\ UNCHANGED <<claimed, driver, kmatch>>
    /\ UNCHANGED <<ctxVars, devVars, openVars, xferVars, cfgVars, bldVars, portVars,
                   lkVars, epVars>>

\* intf.Release() has returned and the cleanup function returns.
CleanupReturn ==
    /\ dipc = "release"
    /\ ipc = "idle"
    /\ dipc' = "idle"
    /\ relh' = "none"
    /\ UNCHANGED <<ctxVars, devVars, openVars, xferVars, cfgVars, bldVars, portVars,
                   ifVars, lkVars, epVars>>

InitXferIdle ==
    /\ xop = [t \in Xfers |-> "none"]
    /\ xep = [t \in Xfers |-> NoEp]
    /\ xdev = [t \in Xfers |-> 0]
    /\ xpc = [t \in Xfers |-> "idle"]
    /\ xret = [t \in Xfers |-> NoRet]
    /\ tpc = [t \in Xfers |-> "none"]
    /\ tres = [t \in Xfers |-> NoRet]
    /\ kcalls = [t \in Xfers |-> 0]
    /\ kout = [t \in Xfers |-> NoKOut]
    /\ kretSig = [t \in Xfers |-> "none"]

\* A Device no model builder has run for.
InitCfgIdle ==
    /\ Configs = <<>>
    /\ ActiveConfig = 0
    /\ panicked = FALSE
    /\ scall = NoCall

\* No descriptor given to the model builder.
InitBuildIdle ==
    /\ bdd = NoDescriptor
    /\ bq = NoAnswers
    /\ built = NotBuilt

\* No topology, and no getPorts call.
InitPortsIdle ==
    /\ Parent = [i \in Nodes |-> 0]
    /\ Port = [i \in Nodes |-> 0]
    /\ gpc = "idle"
    /\ gdev = 0
    /\ gports = <<>>

\* No interface operation called.
InitIntfCalls ==
    /\ iif = 0
    /\ iop = "none"
    /\ ipc = "idle"
    /\ ireqs = <<>>
    /\ ians = <<>>
    /\ iret = NoIRet
    /\ trip = NoTrip

\* An interface nothing has claimed and no driver is bound to.
InitIntfIdle ==
    /\ claimed = [i \in Intfs |-> FALSE]
    /\ driver = [i \in Intfs |-> "none"]
    /\ kmatch = [i \in Intfs |-> FALSE]
    /\ InitIntfCalls

\* No Device.Interface call made.
InitLookupIdle == lk = NoLookup

\* An interface with no endpoints, none asked for.
InitEndpointsIdle ==
    /\ ieps = <<>>
    /\ gout = NoGot
    /\ gin = NoGot

\* DefaultInterface not called.
InitDefaultIdle ==
    /\ dipc = "idle"
    /\ relh = "none"

InitOthersIdle ==
    /\ InitBuildIdle
    /\ InitPortsIdle
    /\ InitIntfIdle
    /\ InitLookupIdle
    /\ InitEndpointsIdle
    /\ InitDefaultIdle

vars == <<ctxVars, devVars, openVars, xferVars, cfgVars, bldVars, portVars, ifVars,
          lkVars, epVars, diVars>>

\* NewContext(): an open done channel and an empty device map.
InitCtx ==
    /\ devices = {}
    /\ done = FALSE
    /\ closeOnce = FALSE
    /\ fires = 0
    /\ cpc = [k \in Closers |-> "idle"]
    /\ cres = [k \in Closers |-> NoResult]
    /\ epc = "idle"
    /\ lastErr = "none"

InitDev ==
    /\ alloc = {}
    /\ f = [d \in Devs |-> "nil"]
    /\ dctx = [d \in Devs |-> FALSE]
    /\ dlast = NoClose
    /\ opc = "idle"
    /\ olist = <<>>
    /\ oret = <<>>

Init == InitCtx /\ InitDev /\ InitXferIdle /\ InitCfgIdle /\ InitOthersIdle

\* The Device the transfers are made on: which one makes no difference.
XferDev == CHOOSE d \in Devs : TRUE

\* The transfer engine: one Device, from Open(bus, dev) (a handle, no Context)
\* or from List() (neither), transfers on its endpoints, and a Context whose
\* disposal signal the cancellable transfers are given.
InitXfer ==
    /\ InitCtx
    /\ alloc = {XferDev}
    /\ f \in [Devs -> {"nil", "open"}]
    /\ \A d \in Devs : d \notin alloc => f[d] = "nil"
    /\ dctx = [d \in Devs |-> FALSE]
    /\ dlast = NoClose
    /\ opc = "idle"
    /\ olist = <<>>
    /\ oret = <<>>
    /\ InitXferIdle
    /\ InitCfgIdle
    /\ InitOthersIdle

\* One goroutine closing the Context is enough to fire the signal.
XferCloser == CHOOSE k \in Closers : TRUE

NextXfer ==
    \/ CloseCall(XferCloser)
    \/ CloseCheck(XferCloser)
    \/ CloseOnce(XferCloser)
    \/ CloseReturn(XferCloser)
    \/ \E d \in Devs : DeviceOpen(d)
    \/ \E d \in Devs : DeviceClose(d)
    \/ \E t \in Xfers, op \in {"BulkOut", "BulkIn"} : SyncCall(t, op)
    \/ \E t \in Xfers, op \in {"WriteContext", "ReadContext"} : CtxCall(t, op)
    \/ \E t \in Xfers : CtxSpawn(t)
    \/ \E t \in Xfers : TaskStart(t)
    \/ \E t \in Xfers : KernelReturn(t)
    \/ \E t \in Xfers : SelectResultCase(t)
    \/ \E t \in Xfers : SelectDoneCase(t)

\* The Go scheduler runs every runnable goroutine: a caller or a spawned
\* goroutine that can take its next step takes it. Nothing makes the kernel
\* call return, the Context close or a caller start a call.
FairXfer ==
    \A t \in Xfers :
        /\ WF_vars(CtxSpawn(t))
        /\ WF_vars(TaskStart(t))
        /\ WF_vars(SelectResultCase(t))
        /\ WF_vars(SelectDoneCase(t))

\* The transfer engine with no assumption on scheduling, for what holds of
\* every step.
SpecXferSafe == InitXfer /\ [][NextXfer]_vars

SpecXfer == InitXfer /\ [][NextXfer]_vars /\ FairXfer

Next ==
    \/ \E k \in Closers : CloseCall(k)
    \/ \E k \in Closers : CloseCheck(k)
    \/ \E k \in Closers : CloseOnce(k)
    \/ \E k \in Closers : CloseReturn(k)
    \/ ErrCall
    \/ ErrReturn
    \/ ODCall
    \/ ODStep
    \/ ODReturn
    \/ \E d \in Devs : DeviceClose(d)
    \/ \E d \in Devs : DeviceDrop(d)

Spec == Init /\ [][Next]_vars

\* C1: Context.Close is refused while any device is registered. A Close whose
\* checkOpenDevs finds the device set non-empty returns the error that reports
\* the number of registered devices, leaves the set as it is and does not fire
\* the disposal signal: Done stays open, Err stays nil, the Once is not used.
C1_CloseRefusedWhileRegistered ==
    [][\A k \in Closers :
        (cpc[k] = "check" /\ cpc'[k] # "check" /\ devices # {}) =>
            /\ cpc'[k] = "ret"
            /\ cres'[k] = ErrStillOpen(Cardinality(devices))
            /\ devices' = devices
            /\ done' = done
            /\ closeOnce' = closeOnce
            /\ fires' = fires
            /\ Err(done') = Err(done)]_vars

\* C1 witness: a Close has returned the error counting two registered devices
\* while both are still registered and the signal has not fired.
C1_Witness ==
    \E k \in Closers :
        /\ cpc[k] = "ret"
        /\ cres[k] = ErrStillOpen(2)
        /\ Cardinality(devices) = 2
        /\ ~done
        /\ fires = 0

\* C2: Context disposal is an idempotent one-shot. A Close whose check finds
\* the device set empty goes on to the Once and returns nil with the signal
\* fired; the signal is fired at most once however many Close calls run, one
\* after another or concurrently; a Close that finds the signal fired already
\* changes nothing and returns nil; the signal never un-fires, and every Err
\* call made once it has fired returns Canceled (and nil before).
C2_DisposalIdempotentOneShot ==
    [][/\ fires' <= 1
       /\ done => done'
       /\ \A k \in Closers :
            /\ (cpc[k] = "check" /\ cpc'[k] # "check" /\ devices = {}) =>
                    cpc'[k] = "once"
            /\ (cpc[k] = "once" /\ cpc'[k] # "once") =>
                    /\ cpc'[k] = "ret"
                    /\ cres'[k] = NilErr
                    /\ done'
                    /\ fires' = (IF done THEN fires ELSE fires + 1)
                    /\ devices' = devices
       /\ (epc = "idle" /\ epc' = "ret") =>
            lastErr' = (IF done THEN Canceled ELSE NoErr)]_vars

\* C2 witness: two Close calls have both returned nil, the signal has fired
\* exactly once and Err has reported Canceled.
C2_Witness ==
    /\ \E k1, k2 \in Closers :
        /\ k1 # k2
        /\ cpc[k1] = "ret" /\ cres[k1] = NilErr
        /\ cpc[k2] = "ret" /\ cres[k2] = NilErr
    /\ done
    /\ fires = 1
    /\ devices = {}
    /\ lastErr = Canceled

\* Devices that are enumerated, registered, opened and closed.
NextDev ==
    \/ ODCall
    \/ ODStep
    \/ ODReturn
    \/ \E d \in Devs : DeviceOpen(d)
    \/ \E d \in Devs : DeviceClose(d)
    \/ \E d \in Devs : DeviceDrop(d)

SpecDev == Init /\ [][NextDev]_vars

\* The model builder on one descriptor, its configuration and interface
\* records in any order, with the backing answering every query.
InitBuild ==
    /\ InitCtx /\ InitDev /\ InitXferIdle /\ InitCfgIdle
    /\ InitLookupIdle /\ InitEndpointsIdle /\ InitDefaultIdle
    /\ InitPortsIdle /\ InitIntfIdle
    /\ bdd \in BuildDescriptors
    /\ bq \in QueryAnswers(bdd, {{}})
    /\ built = NotBuilt

NextBuild == List

SpecBuild == InitBuild /\ [][NextBuild]_vars

\* The model builder with any of the backing's queries failing.
InitQuery ==
    /\ InitCtx /\ InitDev /\ InitXferIdle /\ InitCfgIdle
    /\ InitLookupIdle /\ InitEndpointsIdle /\ InitDefaultIdle
    /\ InitPortsIdle /\ InitIntfIdle
    /\ bdd \in QueryDescriptors
    /\ bq \in QueryAnswers(bdd, SUBSET Queries)
    /\ built = NotBuilt

SpecQuery == InitQuery /\ [][NextBuild]_vars

\* getPorts on device 1 of a topology.
InitPorts ==
    /\ InitCtx /\ InitDev /\ InitXferIdle /\ InitCfgIdle
    /\ InitLookupIdle /\ InitEndpointsIdle /\ InitDefaultIdle
    /\ InitBuildIdle /\ InitIntfIdle
    /\ Parent \in Topologies
    /\ Port \in [Nodes -> PortVals]
    /\ \A i \in Nodes : (i > 1 /\ Parent[i - 1] # i) => Port[i] = 0
    /\ gpc = "idle"
    /\ gdev = 0
    /\ gports = <<>>

NextPorts ==
    \/ getPortsCall
    \/ getPortsStep
    \/ getPortsReturn

\* The goroutine that called getPorts keeps running.
FairPorts == WF_vars(getPortsStep) /\ WF_vars(getPortsReturn)

SpecPorts == InitPorts /\ [][NextPorts]_vars /\ FairPorts

\* One interface of an open device: Claim, Release and GetDriver calls, one
\* at a time, against the kernel.
InitIntf ==
    /\ InitCtx /\ InitDev /\ InitXferIdle /\ InitCfgIdle
    /\ InitLookupIdle /\ InitEndpointsIdle /\ InitDefaultIdle
    /\ InitBuildIdle /\ InitPortsIdle
    /\ claimed = [i \in Intfs |-> FALSE]
    /\ kmatch \in [Intfs -> BOOLEAN]
    /\ driver \in [Intfs -> {"none", "kdrv"}]
    /\ \A i \in Intfs : driver[i] # "none" => kmatch[i]
    /\ InitIntfCalls

NextIntf ==
    \/ \E i \in Intfs : ClaimCall(i)
    \/ ClaimDisconnect
    \/ ClaimClaimInterface
    \/ \E i \in Intfs : ReleaseCall(i)
    \/ ReleaseReleaseInterface
    \/ ReleaseConnect
    \/ \E i \in Intfs : GetDriver(i)

SpecIntf == InitIntf /\ [][NextIntf]_vars

\* The configuration bookkeeping of one Device: the model builder, then any
\* SetConfiguration calls.
NextCfg ==
    \/ toDevice
    \/ \E cfg \in Selectors : SetConfiguration(cfg)

SpecCfg == Init /\ [][NextCfg]_vars

\* The most configurations of the devices interfaces are looked up on.
MaxLookupConfigs == 2

\* The Device interfaces are looked up on: a zero Device, which has no active
\* configuration, or one toDevice built, with any of its configurations
\* active.
InitLookupDevice ==
    \/ InitCfgIdle
    \/ \E dd \in QueryDescriptors :
        \E ac \in 1..dd.NumConfigs :
            /\ dd.NumConfigs <= MaxLookupConfigs
            /\ Configs = toDeviceOf(dd, [failed |-> {}, acVal |-> ac,
                                         speed |-> SpeedUnknown]).Configs
            /\ ActiveConfig = ac
            /\ panicked = FALSE
            /\ scall = NoCall

\* Interfaces looked up by index on a Device, and the interface operations
\* made through the lookup.
InitLookup ==
    /\ InitCtx
    /\ InitDev
    /\ InitXferIdle
    /\ InitLookupDevice
    /\ InitBuildIdle
    /\ InitPortsIdle
    /\ InitIntfIdle
    /\ InitLookupIdle
    /\ InitEndpointsIdle
    /\ InitDefaultIdle

NextLookup ==
    \/ \E i \in LookupArgs : InterfaceCall(i)
    \/ \E i \in LookupArgs : ClaimInterface(i)
    \/ \E i \in LookupArgs : ReleaseInterface(i)
    \/ \E i \in LookupArgs : DeviceGetDriver(i)
    \/ ClaimDisconnect
    \/ ClaimClaimInterface
    \/ ReleaseReleaseInterface
    \/ ReleaseConnect

SpecLookup == InitLookup /\ [][NextLookup]_vars

\* The endpoints of an interface, whatever they are, and the two lookups by
\* direction.
InitEndpoints ==
    /\ InitCtx
    /\ InitDev
    /\ InitXferIdle
    /\ InitCfgIdle
    /\ InitBuildIdle
    /\ InitPortsIdle
    /\ InitIntfIdle
    /\ InitLookupIdle
    /\ ieps \in EndpointLists
    /\ gout = NoGot
    /\ gin = NoGot
    /\ InitDefaultIdle

NextEndpoints == GetOutEndpointCall \/ GetInEndpointCall

SpecEndpoints == InitEndpoints /\ [][NextEndpoints]_vars

\* DefaultInterface and the cleanup function it returns, on one Device from
\* Open(bus, dev) or List(), with or without a handle.
InitDefault ==
    /\ InitCtx
    /\ alloc = {DefDev}
    /\ f \in [Devs -> {"nil", "open"}]
    /\ \A d \in Devs : d \notin alloc => f[d] = "nil"
    /\ dctx = [d \in Devs |-> FALSE]
    /\ dlast = NoClose
    /\ opc = "idle"
    /\ olist = <<>>
    /\ oret = <<>>
    /\ InitXferIdle
    /\ InitLookupDevice
    /\ InitBuildIdle
    /\ InitPortsIdle
    /\ InitIntfIdle
    /\ InitLookupIdle
    /\ InitEndpointsIdle
    /\ InitDefaultIdle

NextDefault ==
    \/ DefaultInterface
    \/ ClaimDisconnect
    \/ ClaimClaimInterface
    \/ DefaultInterfaceReturn
    \/ CleanupClose
    \/ CleanupRelease
    \/ CleanupReturn

SpecDefault == InitDefault /\ [][NextDefault]_vars

\* ------------------------------------------------------------------ claims

CtxOps == {"WriteContext", "ReadContext"}
SyncOps == {"BulkOut", "BulkIn"}

\* C3: if the disposal signal is already fired when WriteContext or
\* ReadContext is called, the call returns (0, the signal's error) at once,
\* issues no kernel transfer call and spawns no goroutine, whatever the
\* endpoint and the device handle are; and nothing of that call runs later.
C3_PreFiredSignalNoTransfer ==
    [][\A t \in Xfers :
        /\ (xpc[t] = "idle" /\ xpc'[t] # "idle" /\ xop'[t] \in CtxOps /\ done) =>
            /\ xpc'[t] = "ret"
            /\ xret'[t] = R(0, E(Canceled, NoErr))
            /\ kcalls' = kcalls
            /\ tpc' = tpc
        /\ (xpc[t] = "ret" /\ tpc[t] = "none") =>
            /\ xpc'[t] = "ret"
            /\ tpc'[t] = "none"
            /\ kcalls'[t] = kcalls[t]]_vars

\* C3 witness: a WriteContext/ReadContext on a bulk endpoint of the right
\* direction of an open device returned (0, Canceled) with no goroutine and no
\* kernel call.
C3_Witness ==
    \E t \in Xfers :
        /\ xop[t] \in CtxOps
        /\ xpc[t] = "ret"
        /\ xret[t] = R(0, E(Canceled, NoErr))
        /\ tpc[t] = "none"
        /\ kcalls[t] = 0
        /\ f[xdev[t]] = "open"
        /\ CtxPre(xop[t], f[xdev[t]], xep[t]) = NilE

\* C4 as stated: whenever the kernel transfer call returned while the signal
\* was not fired (so the signal fires only afterwards, or never), the
\* cancellable call returns the kernel call's own outcome.
C4_Original ==
    \A t \in Xfers :
        (xop[t] \in CtxOps /\ xpc[t] = "ret" /\ kretSig[t] = "open") =>
            xret[t] = BulkResult(xop[t], kout[t])

\* C4 amended: the cancellable call returns the kernel call's own outcome (its
\* byte count and error) when its select takes the goroutine's result, and it
\* does so whenever the signal has not fired by the time the wait ends; a
\* signal firing after that changes nothing of what was returned. A signal
\* that fires after the kernel call returned but before the result is handed
\* over can still win the select: the call returns the kernel outcome or
\* (0, Canceled), nothing else.
C4_KernelOutcomeOnceReceived ==
    [][\A t \in Xfers :
        /\ (xpc[t] = "select" /\ xpc'[t] = "ret" /\ ~done) =>
            /\ tpc[t] = "send"
            /\ xret'[t] = tres[t]
            /\ kcalls[t] = 1 => xret'[t] = BulkResult(xop[t], kout[t])
        /\ (xpc[t] = "select" /\ xpc'[t] = "ret" /\ done) =>
            \/ xret'[t] = R(0, E(Canceled, NoErr))
            \/ tpc[t] = "send" /\ xret'[t] = tres[t]
        /\ xpc[t] = "ret" => xret'[t] = xret[t]]_vars

\* C4 witness: a cancellable call returned the kernel's outcome, one byte
\* transferred, and the signal fired after that.
C4_Witness ==
    \E t \in Xfers :
        /\ xop[t] \in CtxOps
        /\ xpc[t] = "ret"
        /\ kretSig[t] = "open"
        /\ kout[t].n = 1
        /\ xret[t] = BulkResult(xop[t], kout[t])
        /\ done

\* C5: when the signal wins the race the goroutine still runs to completion:
\* once the kernel call has returned it delivers or drops its result and
\* terminates. The only receive from resultChan is the caller's select, so a
\* goroutine at its send after the caller has returned is blocked for ever:
\* the claim is that no such state is reached.
C5_TaskRunsToCompletion ==
    \A t \in Xfers : ~(tpc[t] = "send" /\ xpc[t] = "ret")

BadPre(op, h, ep) ==
    \/ h = "nil"
    \/ (ep.Address >= 128) # (op \in {"BulkIn", "ReadContext"})
    \/ ep.TransferType # 2

C8_PartialCountPreserved ==
    \A t \in Xfers :
        /\ (xop[t] \in SyncOps /\ xpc[t] = "ret" /\ kcalls[t] = 1) =>
            /\ xret[t].n = kout[t].n
            /\ xret[t].err.wraps = kout[t].err
            /\ (xret[t].err = NilE) <=> (kout[t].err = NoErr)
        /\ (tpc[t] \in {"send", "done"} /\ kcalls[t] = 1) =>
            /\ tres[t].n = kout[t].n
            /\ tres[t].err.wraps = kout[t].err
            /\ (tres[t].err = NilE) <=> (kout[t].err = NoErr)
        /\ (xop[t] \in CtxOps /\ xpc[t] = "ret" /\ tpc[t] # "none" /\ ~done) =>
            /\ tpc[t] = "done"
            /\ xret[t] = tres[t]

\* C8 witness: a WriteContext whose signal has not fired returned the byte
\* count 1 together with the wrapped kernel error.
C8_Witness ==
    \E t \in Xfers :
        /\ xop[t] = "WriteContext"
        /\ xpc[t] = "ret"
        /\ ~done
        /\ kout[t] = [n |-> 1, err |-> "EIO"]
        /\ xret[t].n = 1
        /\ xret[t].err.wraps = "EIO"

\* C9: after model building and after any sequence of SetConfiguration calls,
\* with any selector and any outcome of the underlying call, ActiveConfig,
\* when non-nil, refers to an element of the Device's Configs, and no call
\* panics on an index outside Configs.
C9_ActiveConfigWithinConfigs ==
    /\ ~panicked
    /\ ActiveConfig # 0 => ActiveConfig \in 1..Len(Configs)

\* C10: SetConfiguration(cfg) sets ActiveConfig to the configuration with
\* selector cfg exactly when the underlying set-configuration call succeeds,
\* leaves ActiveConfig as it was when that call fails, and returns the
\* failure.
C10_UpdateOnSuccess ==
    (scall.err # "none" /\ ~panicked) =>
        IF scall.err = NoErr
        THEN ActiveConfig # 0 /\ Configs[ActiveConfig].Value = scall.cfg
        ELSE ActiveConfig = scall.before

\* C11: the positional contract of the model builder. Whatever the order of
\* the configuration records and of the interface records within each, the
\* Device built has as many Configs as the descriptor declares, the record
\* with Value = k is at Configs[k-1] (position k here), and in it the interface
\* record with number n is at index n of Interfaces (position n + 1 here).
C11_PositionalContract ==
    (built.state = "done" /\ built.ok) =>
        /\ Len(built.Configs) = bdd.NumConfigs
        /\ \A k \in 1..Len(bdd.Configs) :
            LET c == bdd.Configs[k]
                cfg == built.Configs[c.Value]
            IN /\ cfg.Value = c.Value
               /\ cfg.d
               /\ Len(cfg.Interfaces) = c.NumInterfaces
               /\ \A j \in 1..Len(c.Interfaces) :
                    LET n == c.Interfaces[j].InterfaceNumber
                    IN cfg.Interfaces[n + 1] = [ID |-> n, d |-> TRUE]

\* C11 witness: a descriptor whose first record is configuration 2, with its
\* interface 1 before its interface 0, has been built, and configuration 2 is
\* second in Configs with interface 1 second in its Interfaces.
C11_Witness ==
    /\ built.state = "done" /\ built.ok
    /\ bdd.NumConfigs = 2
    /\ bdd.Configs[1].Value = 2
    /\ bdd.Configs[1].NumInterfaces = 2
    /\ bdd.Configs[1].Interfaces[1].InterfaceNumber = 1
    /\ built.Configs[2].Value = 2
    /\ built.Configs[2].Interfaces[2].ID = 1
    /\ built.Configs[1].Value = 1

\* The ports of the devices n, n-1, ..., from of a chain that ends at device
\* n: root first.
RootFirst(from) ==
    LET n == ChainLength(Parent)
    IN [i \in 1..(n - from + 1) |-> Port[n + 1 - i]]

NonZero(ports) == SelectSeq(ports, LAMBDA p : p # 0)

\* C12 as stated: getPorts(C) returns the non-zero ports of C's ancestors,
\* root first, without C's own port.
C12_Original ==
    gpc = "done" => gports = NonZero(RootFirst(2))

\* C12: getPorts(C) returns the non-zero ports of the devices of C's Parent
\* chain, C itself included, root first: C's own port is the last element.
C12_PortsRootFirstWithOwn ==
    gpc = "done" => gports = NonZero(RootFirst(1))

\* C12 witness: the chain A <- B <- C with ports 3, 1, 2: getPorts(C) has
\* returned [3, 1, 2].
C12_Witness ==
    /\ gpc = "done"
    /\ Parent = <<2, 3, 0>>
    /\ Port = <<2, 1, 3>>
    /\ gports = <<3, 1, 2>>

\* C13: getPorts returns for every Parent chain, one that leads back into
\* itself included, and ports is never longer than MAX_PORTS.
C13_TerminatesWithinMaxPorts ==
    /\ (gpc = "loop") ~> (gpc = "done")
    /\ [](Len(gports) <= MAX_PORTS)

\* C14: Claim issues the disconnect request and then, whatever its answer,
\* the claim request; it returns an error exactly when the claim request
\* fails, that request's error, and the interface is then not claimed.
C14_ClaimAfterAnyDetach ==
    /\ (iop = "Claim" /\ ipc = "claim") => ireqs = <<"DISCONNECT">>
    /\ (iop = "Claim" /\ ipc = "idle") =>
        /\ ireqs = <<"DISCONNECT", "CLAIMINTERFACE">>
        /\ (iret.err # NoErr) <=> (ians[2].r = -1)
        /\ ians[2].r = -1 => (iret.err = ians[2].errno /\ ~claimed[iif])
        /\ ians[2].r # -1 => claimed[iif]

\* C14 witness: the disconnect request failed with an error other than "no
\* data", the claim request was issued all the same and failed, Claim
\* returned its error and the interface is not claimed.
C14_Witness ==
    /\ iop = "Claim" /\ ipc = "idle"
    /\ ians[1] = Fail("EIO")
    /\ ians[2] = Fail("EBUSY")
    /\ iret.err = "EBUSY"
    /\ ~claimed[iif]

\* C15: Release issues the release request and, when that succeeded, the
\* connect request after it, and returns nil whatever the connect request
\* answers; when the release request fails Release returns its error and no
\* connect request is issued.
C15_ReleaseThenBestEffortReattach ==
    (iop = "Release" /\ ipc = "idle") =>
        IF ians[1].r = -1
        THEN /\ ireqs = <<"RELEASEINTERFACE">>
             /\ iret.err = ians[1].errno
             /\ iret.err # NoErr
        ELSE /\ ireqs = <<"RELEASEINTERFACE", "CONNECT">>
             /\ iret.err = NoErr

\* C15 witness: the release request succeeded, the connect request failed and
\* Release returned nil.
C15_Witness ==
    /\ iop = "Release" /\ ipc = "idle"
    /\ ireqs = <<"RELEASEINTERFACE", "CONNECT">>
    /\ ians[2] = Fail("EIO")
    /\ iret.err = NoErr

\* A Claim of a free interface and the Release after it have both returned
\* nil.
RoundTripDone == iop = "Release" /\ ipc = "idle" /\ trip.phase = "done"

\* C16 as stated: after the round trip the interface is as before the Claim,
\* in its claim and in its kernel driver.
C16_Original ==
    RoundTripDone =>
        (claimed[iif] = trip.claimed /\ driver[iif] = trip.driver)

\* C16: after the round trip the interface is free again, and its kernel
\* driver is what the connect request left: the kernel's matching driver when
\* that request succeeded and there is one, none otherwise. It is the driver
\* of before the Claim when the connect request succeeded and the kernel's
\* matching driver was the one bound (or there is neither).
C16_RoundTripUpToReattach ==
    RoundTripDone =>
        /\ Len(ireqs) = 2
        /\ claimed[iif] = trip.claimed
        /\ driver[iif] =
                (IF ians[2].r = 0 /\ kmatch[iif] THEN "kdrv" ELSE "none")
        /\ (ians[2].r = 0 /\ (kmatch[iif] <=> trip.driver # "none")) =>
                driver[iif] = trip.driver

\* C16 witness: a round trip on an interface with a kernel driver bound, whose
\* connect request succeeded: the driver is bound again.
C16_Witness ==
    /\ RoundTripDone
    /\ trip.driver = "kdrv"
    /\ ians[2] = Ok
    /\ driver[iif] = "kdrv"
    /\ ~claimed[iif]

\* C17: "no data" is never an error. Claim returns nil when the disconnect
\* request answers "no data" and the claim request succeeds; GetDriver returns
\* the empty name and nil when its request answers "no data", and the error
\* of any other failure.
C17_NoDataIsNoError ==
    /\ (iop = "Claim" /\ ipc = "idle" /\ ians[1].errno = "ENODATA"
            /\ ians[2].r = 0) => iret.err = NoErr
    /\ iop = "GetDriver" =>
        IF ians[1].errno = "ENODATA" THEN iret = IRet(<<>>, NoErr)
        ELSE IF ians[1].errno # NoErr THEN iret.err = ians[1].errno
        ELSE iret.err = NoErr

\* C18: Device.Close leaves the device with no handle and no Context and in
\* no Context's set, and removes no other device from the set; on a device
\* with no handle and no Context it changes nothing and returns nil.
C18_CloseReleasesAndDeregisters ==
    [][\A d \in Devs :
        DeviceClose(d) =>
            /\ f'[d] = "nil"
            /\ ~dctx'[d]
            /\ d \notin devices'
            /\ devices' = devices \ {d}
            /\ \A e \in Devs \ {d} : f'[e] = f[e] /\ dctx'[e] = dctx[e]
            /\ dlast'.dev = d
            /\ (f[d] = "nil") => dlast'.err = NoErr
            /\ (f[d] = "nil" /\ ~dctx[d]) =>
                    (devices' = devices /\ f' = f /\ dctx' = dctx)]_vars

\* C18 witness: a Close of device 1, which had a handle (its file's Close
\* failed), has returned: device 1 has no handle and no Context and is not in
\* the set, and device 2 is still registered.
C18_Witness ==
    /\ dlast = [dev |-> 1, err |-> "EIO"]
    /\ f[1] = "nil"
    /\ ~dctx[1]
    /\ 1 \notin devices
    /\ 2 \in devices

\* C19: every device OpenDevices registers and returns has an open handle and
\* its Context set, and the registered devices are devices the opener
\* accepted.
C19_RegisteredDevicesAreOpen ==
    /\ \A d \in devices : f[d] = "open" /\ dctx[d]
    /\ \A i \in 1..Len(oret) : f[oret[i]] = "open" /\ oret[i] \in devices

\* C20: toDevice returns a Device whichever queries fail and whatever active
\* configuration value the backing reports, with ActiveConfig the first
\* configuration when that query fails and Speed unknown when the speed query
\* fails.
C20_ModelBuildingNeverFails ==
    built.state = "done" =>
        /\ built.ok
        /\ "getActiveConfig" \in bq.failed => built.ActiveConfig = 1
        /\ "getSpeed" \in bq.failed => built.Speed = SpeedUnknown

\* errors.Is(err, target) for the error values of the model.
Is(err, target) == err.kind = target \/ err.wraps = target

\* The calls that look an interface up by index i.
LookupCall(i) ==
    InterfaceCall(i) \/ ClaimInterface(i) \/ ReleaseInterface(i) \/ DeviceGetDriver(i)

\* C21: Device.Interface(i), and ClaimInterface / ReleaseInterface / GetDriver
\* through it: with no active configuration the call fails with
\* ErrNoActiveConfig; with an active configuration of zero interfaces it fails
\* with ErrNoInterfacesInConfig; with i < 0 or i >= the number of interfaces
\* it fails with ErrInvalidInterfaceIndex; in all three cases it returns no
\* interface and issues no kernel request. Otherwise it returns the interface
\* at index i of the active configuration, and the three operations act on
\* that interface.
C21_InterfaceLookup ==
    [][\A i \in LookupArgs :
        LookupCall(i) =>
            /\ lk'.i = i
            /\ IF ActiveConfig = 0
               THEN /\ Is(lk'.err, ErrNoActiveConfig)
                    /\ lk'.intf = NilIntf
                    /\ UNCHANGED ifVars
               ELSE IF Len(Configs[ActiveConfig].Interfaces) = 0
               THEN /\ Is(lk'.err, ErrNoInterfacesInConfig)
                    /\ lk'.intf = NilIntf
                    /\ UNCHANGED ifVars
               ELSE IF i < 0 \/ i >= Len(Configs[ActiveConfig].Interfaces)
               THEN /\ Is(lk'.err, ErrInvalidInterfaceIndex)
                    /\ lk'.intf = NilIntf
                    /\ UNCHANGED ifVars
               ELSE /\ lk'.err = NilE
                    /\ lk'.intf = IntfRef(ActiveConfig, i + 1)
                    /\ Configs[ActiveConfig].Interfaces[i + 1].ID = i
                    /\ lk'.op # "Interface" =>
                        /\ iif' = i + 1
                        /\ iop' = (CASE lk'.op = "ClaimInterface" -> "Claim"
                                      [] lk'.op = "ReleaseInterface" -> "Release"
                                      [] OTHER -> "GetDriver")
                        /\ ireqs' = IF lk'.op = "GetDriver"
                                    THEN <<"GETDRIVER">> ELSE <<>>]_vars

\* C21 witness: on a device whose active configuration has interfaces,
\* ClaimInterface of the last one went through to the kernel and claimed it,
\* and then a ReleaseInterface one past the end failed with
\* ErrInvalidInterfaceIndex and issued nothing: the requests on record are
\* still the Claim's.
C21_Witness ==
    /\ ActiveConfig # 0
    /\ LET n == Len(Configs[ActiveConfig].Interfaces) IN
        /\ n > 1
        /\ lk.op = "ReleaseInterface"
        /\ lk.i = n
        /\ Is(lk.err, ErrInvalidInterfaceIndex)
        /\ lk.intf = NilIntf
        /\ iop = "Claim"
        /\ iif = n
        /\ claimed[n]
        /\ ireqs = <<"DISCONNECT", "CLAIMINTERFACE">>

\* The positions of the endpoints of a list whose address has bit 7 clear
\* (OUT), and set (IN).
OutPositions(eps) == {k \in 1..Len(eps) : (eps[k].Address % 256) < 128}
InPositions(eps) == {k \in 1..Len(eps) : (eps[k].Address % 256) >= 128}
FirstOf(S) == CHOOSE k \in S : \A j \in S : k <= j
Handles == {"nil", "open", "closed"}

\* C22: GetOutEndpoint returns the first endpoint of the interface, in list
\* order, whose address has bit 7 clear, and GetInEndpoint the first whose
\* address has bit 7 set; each fails iff the interface has no endpoint of that
\* direction; and the endpoint returned never fails the direction check of
\* BulkOut / BulkIn, nor that of WriteContext / ReadContext.
C22_FirstEndpointOfDirection ==
    /\ gout # NoGot =>
        /\ (gout.err # NilE) <=> (OutPositions(ieps) = {})
        /\ gout.err # NilE => gout.ep = NoEp
        /\ gout.err = NilE =>
            /\ gout.ep = ieps[FirstOf(OutPositions(ieps))]
            /\ \A h \in Handles :
                /\ BulkOutPre(h, gout.ep).kind # "not an OUT endpoint"
                /\ WriteContextPre(h, gout.ep).kind # "not an OUT endpoint"
    /\ gin # NoGot =>
        /\ (gin.err # NilE) <=> (InPositions(ieps) = {})
        /\ gin.err # NilE => gin.ep = NoEp
        /\ gin.err = NilE =>
            /\ gin.ep = ieps[FirstOf(InPositions(ieps))]
            /\ \A h \in Handles :
                /\ BulkInPre(h, gin.ep).kind # "not an IN endpoint"
                /\ ReadContextPre(h, gin.ep).kind # "not an IN endpoint"

\* C22 witness: an interface whose first endpoint is IN and whose second and
\* third are two different OUT endpoints; GetOutEndpoint returned the second
\* and GetInEndpoint the first.
C22_Witness ==
    /\ Len(ieps) >= 3
    /\ InPositions(ieps) = {1}
    /\ ieps[2] # ieps[3]
    /\ gout = Got(ieps[2], NilE)
    /\ gin = Got(ieps[1], NilE)

\* C23: in every interleaving of Context.Close with OpenDevices and
\* Device.Close calls, no state has the disposal signal fired (Done closed)
\* and a device registered in the Context.
C23_NoDeviceOnceDisposed == ~(done /\ devices # {})

\* C24: the cleanup function DefaultInterface returns issues the interface
\* release while the device handle is still open: whenever it has called
\* intf.Release(), d.f was an open handle at that call.
C24_ReleaseBeforeClose == dipc = "release" => relh = "open"

\* C25: after any sequence of Device.Open and Device.Close calls, each of
\* which may succeed or fail, d.f is nil or a handle that is still open; so a
\* transfer that passes the open-handle precondition issues its kernel call
\* on an open handle, never on one closed already.
C25_HandleNilOrOpen ==
    [][/\ \A d \in Devs : f'[d] # "closed"
       /\ \A t \in Xfers :
            kcalls'[t] > kcalls[t] => f[xdev'[t]] = "open"]_vars

====
